---- MODULE Spec2Model ----
(***************************************************************************)
(* Model of the data-shield Automate function: the parameter matchers      *)
(* (actions.py, helpers.py), the actions and the walker                    *)
(* (ParameterProcessor, function.py) and the run driven by                 *)
(* automate_function (function.py).                                        *)
(*                                                                         *)
(* A Python string is a sequence of one-character strings.                 *)
(***************************************************************************)
EXTENDS Integers, Sequences, FiniteSets, TLC

VARIABLES
    pc,                   \* position of the run / of the call under test
    inputs,               \* FunctionInputs: sanitization_mode, parameter_input, strict_mode
    action,               \* the selected ParameterAction ("none" before selection)
    check_values,         \* ParameterProcessor.check_values
    graph,                \* the traversal sequence of the received version (mutated in place)
    graph0,               \* the traversal sequence as it was received
    idx,                  \* next traversal context to process
    processed_objects,    \* ParameterProcessor.processed_objects
    affected_parameters,  \* ParameterAction.affected_parameters, in insertion order
    anonymized_count,     \* AnonymizationAction.anonymized_count
    calls,                \* calls made on the collaborators, in order
    checks,               \* kinds of subject handed to Action.check so far
    arg,                  \* arguments of the matcher call under test
    ret                   \* its result

vars == <<pc, inputs, action, check_values, graph, graph0, idx, processed_objects,
          affected_parameters, anonymized_count, calls, checks, arg, ret>>

----------------------------------------------------------------------------
(* Bounds *)

MaxPatLen == 4
MaxNameLen == 2
MaxNodes == 2
MaxEntries == 3

----------------------------------------------------------------------------
(* Strings *)

PatChars == {"/", "i", "I", "*"}
NameChars == {"i", "I", "/"}

StrsUpTo(chars, n) == UNION {[1..k -> chars] : k \in 0..n}

\* str.lower() on one character
LowerChar(c) ==
    CASE c = "I" -> "i"
      [] c = "A" -> "a"
      [] c = "B" -> "b"
      [] OTHER -> c

\* str.lower()
Lower(s) == [k \in 1..Len(s) |-> LowerChar(s[k])]

\* str.startswith(prefix)
StartsWith(s, prefix) ==
    /\ Len(prefix) <= Len(s)
    /\ \A k \in 1..Len(prefix) : s[k] = prefix[k]

\* str.endswith(suffix)
EndsWith(s, suffix) ==
    /\ Len(suffix) <= Len(s)
    /\ \A k \in 1..Len(suffix) : s[Len(s) - Len(suffix) + k] = suffix[k]

\* str.rstrip(c): every trailing c is removed
RECURSIVE RStrip(_, _)
RStrip(s, c) ==
    IF Len(s) > 0 /\ s[Len(s)] = c THEN RStrip(SubSeq(s, 1, Len(s) - 1), c) ELSE s

\* s[start:stop] with start >= 0 and stop < 0, as Python slices
Slice(s, start, stop) ==
    LET hi == IF Len(s) + stop < 0 THEN 0 ELSE Len(s) + stop
        lo == IF start > Len(s) THEN Len(s) ELSE start
    IN  IF hi <= lo THEN <<>> ELSE SubSeq(s, lo + 1, hi)

----------------------------------------------------------------------------
(* re and fnmatch, on the pattern alphabet: every character is a literal   *)
(* except "*", which in a regex repeats the atom before it and in a glob   *)
(* matches any run of characters.                                          *)

\* re.compile raises re.error: "nothing to repeat" / "multiple repeat"
ReCompileFails(body) ==
    \/ Len(body) > 0 /\ body[1] = "*"
    \/ \E k \in 1..(Len(body) - 1) : body[k] = "*" /\ body[k + 1] = "*"

CharEq(a, b, ignore_case) ==
    IF ignore_case THEN LowerChar(a) = LowerChar(b) ELSE a = b

\* the regex body from position k matches s from position j on
RECURSIVE ReMatchHere(_, _, _, _, _)
ReMatchHere(body, k, s, j, ignore_case) ==
    IF k > Len(body) THEN TRUE
    ELSE IF k + 1 <= Len(body) /\ body[k + 1] = "*"
    THEN \E n \in 0..(Len(s) - j + 1) :
            /\ \A m \in j..(j + n - 1) : CharEq(body[k], s[m], ignore_case)
            /\ ReMatchHere(body, k + 2, s, j + n, ignore_case)
    ELSE /\ j <= Len(s)
         /\ CharEq(body[k], s[j], ignore_case)
         /\ ReMatchHere(body, k + 1, s, j + 1, ignore_case)

\* regex.search(s) is not None
ReSearch(body, s, ignore_case) ==
    \E j \in 1..(Len(s) + 1) : ReMatchHere(body, 1, s, j, ignore_case)

RECURSIVE GlobMatchHere(_, _, _, _)
GlobMatchHere(pat, k, s, j) ==
    IF k > Len(pat) THEN j > Len(s)
    ELSE IF pat[k] = "*"
    THEN \E n \in 0..(Len(s) - j + 1) : GlobMatchHere(pat, k + 1, s, j + n)
    ELSE /\ j <= Len(s)
         /\ pat[k] = s[j]
         /\ GlobMatchHere(pat, k + 1, s, j + 1)

\* fnmatch.fnmatchcase(name, pat); fnmatch.fnmatch is the same on POSIX
FnMatchCase(name, pat) == GlobMatchHere(pat, 1, name, 1)

----------------------------------------------------------------------------
(* Matchers: a result is [raised, value]; raised models re.error *)

Returned(b) == [raised |-> FALSE, value |-> b]
Raised == [raised |-> TRUE, value |-> FALSE]

\* a prefix match that lower-cases whatever strict_mode says
PrefixMatcher_matches_IgnoresStrict(match_value, strict_mode, param_name) ==
    Returned(StartsWith(Lower(param_name), Lower(match_value)))

\* PrefixMatcher.matches
PrefixMatcher_matches(match_value, strict_mode, param_name) ==
    IF strict_mode
    THEN Returned(StartsWith(param_name, match_value))
    ELSE Returned(StartsWith(Lower(param_name), Lower(match_value)))

\* PatternChecker.__init__: self.is_regex
PatternChecker_is_regex(pattern) ==
    StartsWith(pattern, <<"/">>) /\ EndsWith(RStrip(pattern, "i"), <<"/">>)

\* PatternChecker.__init__: self.ignore_case
PatternChecker_ignore_case(pattern, strict) ==
    IF PatternChecker_is_regex(pattern) /\ EndsWith(pattern, <<"/", "i">>)
    THEN TRUE
    ELSE ~strict

\* PatternChecker.__init__: self.pattern
PatternChecker_pattern(pattern) ==
    IF PatternChecker_is_regex(pattern)
    THEN IF EndsWith(pattern, <<"/", "i">>)
         THEN Slice(pattern, 1, -2)
         ELSE Slice(pattern, 1, -1)
    ELSE pattern

\* PatternChecker(pattern, strict).check(param_name)
PatternChecker_check(pattern, strict, param_name) ==
    LET body == PatternChecker_pattern(pattern)
        ignore_case == PatternChecker_ignore_case(pattern, strict)
    IN  IF PatternChecker_is_regex(pattern)
        THEN IF ReCompileFails(body)
             THEN Raised
             ELSE Returned(ReSearch(body, param_name, ignore_case))
        ELSE IF ignore_case
             THEN Returned(FnMatchCase(Lower(param_name), Lower(body)))
             ELSE Returned(FnMatchCase(param_name, body))

\* PatternMatcher.matches
PatternMatcher_matches(match_value, strict_mode, param_name) ==
    PatternChecker_check(match_value, strict_mode, param_name)

----------------------------------------------------------------------------
(* EmailMatcher, on the value alphabet *)

AlphaChars == {"a", "b", "c", "x", "i", "I"}      \* [a-zA-Z]
LocalChars == AlphaChars \cup {"."}               \* [a-zA-Z0-9._%+-]
DomainChars == AlphaChars \cup {"."}              \* [a-zA-Z0-9.-]

\* a parameter value: a string or something else (a number)
Str(s) == [is_str |-> TRUE, s |-> s]
Num == [is_str |-> FALSE, s |-> <<>>]

\* last index of the run of class characters that starts at s (s - 1: no run)
RECURSIVE RunEnd(_, _, _)
RunEnd(v, s, class) ==
    IF s <= Len(v) /\ v[s] \in class THEN RunEnd(v, s + 1, class) ELSE s - 1

SetMax(S) == CHOOSE x \in S : \A y \in S : y <= x
SetMin(S) == CHOOSE x \in S : \A y \in S : x <= y

\* EMAIL_PATTERN matched at start s: the index of the match's last character, 0: no match
EmailEndAt(v, s) ==
    LET e1 == RunEnd(v, s, LocalChars)
        at == e1 + 1
    IN  IF e1 < s \/ at > Len(v) \/ v[at] # "@" THEN 0
        ELSE LET e2 == RunEnd(v, at + 1, DomainChars)
                 dots == {q \in (at + 2)..e2 :
                             /\ v[q] = "."
                             /\ q + 2 <= Len(v)
                             /\ v[q + 1] \in AlphaChars
                             /\ v[q + 2] \in AlphaChars}
             IN  IF dots = {} THEN 0 ELSE RunEnd(v, SetMax(dots) + 1, AlphaChars)

\* starts of a match at or after pos
EmailStarts(v, pos) == {s \in pos..Len(v) : EmailEndAt(v, s) # 0}

\* EmailMatcher.contains_email
EmailMatcher_contains_email(value) ==
    value.is_str /\ EmailStarts(value.s, 1) # {}

Stars(n) == [k \in 1..n |-> "*"]

\* the masking of the docstring: the first character, then asterisks
replace_email_FirstThenStars(email) ==
    LET at == SetMin({k \in 1..Len(email) : email[k] = "@"})
    IN  <<email[1]>> \o Stars(at - 2) \o SubSeq(email, at, Len(email))
\* replace_email: the matched email with its local part masked
replace_email(email) ==
    LET at == SetMin({k \in 1..Len(email) : email[k] = "@"})
        local == SubSeq(email, 1, at - 1)
        domain == SubSeq(email, at + 1, Len(email))
        anonymized_local ==
            IF Len(local) > 2
            THEN <<local[1]>> \o Stars(Len(local) - 2) \o <<local[Len(local)]>>
            ELSE IF Len(local) = 2 THEN <<local[1], "*">>
            ELSE <<"*">>
    IN  anonymized_local \o <<"@">> \o domain

\* self.pattern.sub(replace_email, value) from position pos on
RECURSIVE EmailSub(_, _)
EmailSub(v, pos) ==
    IF EmailStarts(v, pos) = {} THEN SubSeq(v, pos, Len(v))
    ELSE LET s == SetMin(EmailStarts(v, pos))
             e == EmailEndAt(v, s)
         IN  SubSeq(v, pos, s - 1) \o replace_email(SubSeq(v, s, e)) \o EmailSub(v, e + 1)

\* a masking that masks its own result once more
EmailMatcher_anonymize_email_Twice(value) ==
    IF ~value.is_str THEN value ELSE Str(EmailSub(EmailSub(value.s, 1), 1))
\* EmailMatcher.anonymize_email
EmailMatcher_anonymize_email(value) ==
    IF ~value.is_str THEN value ELSE Str(EmailSub(value.s, 1))

----------------------------------------------------------------------------
(* The object graph.                                                       *)
(* A mapping (a Python dict, which keeps insertion order) is a sequence of *)
(* entries with distinct keys.  An entry's value is a dict holding a       *)
(* "value" field (kind "param"), a dict that holds none (kind "group",     *)
(* its entries in sub) or anything else (kind "other").                    *)

Param(key, has_name, name, value) ==
    [key |-> key, kind |-> "param", has_name |-> has_name, name |-> name,
     value |-> value, sub |-> <<>>]
Group(key, sub) ==
    [key |-> key, kind |-> "group", has_name |-> FALSE, name |-> <<>>,
     value |-> Num, sub |-> sub]
Other(key) ==
    [key |-> key, kind |-> "other", has_name |-> FALSE, name |-> <<>>,
     value |-> Num, sub |-> <<>>]

KeysOf(d) == {d[k].key : k \in 1..Len(d)}

\* dict.pop(key, None)
DictPop(d, key) == SelectSeq(d, LAMBDA e : e.key # key)

\* d[key] = entry, for a key that is present
DictReplace(d, key, entry) == [k \in 1..Len(d) |-> IF d[k].key = key THEN entry ELSE d[k]]

\* a node of the traversal sequence: properties / parameters may be None
Node(id, has_properties, properties, has_parameters, parameters) ==
    [id |-> id, has_properties |-> has_properties, properties |-> properties,
     has_parameters |-> has_parameters, parameters |-> parameters]

----------------------------------------------------------------------------
(* Actions *)

NoAction == [kind |-> "none", matcher |-> "none", match_value |-> <<>>, strict_mode |-> FALSE]

\* create_prefix_removal_action
create_prefix_removal_action(forbidden_prefix, strict_mode) ==
    [kind |-> "removal", matcher |-> "prefix", match_value |-> forbidden_prefix,
     strict_mode |-> strict_mode]

\* create_pattern_removal_action
create_pattern_removal_action(pattern, strict_mode) ==
    [kind |-> "removal", matcher |-> "pattern", match_value |-> pattern,
     strict_mode |-> strict_mode]

\* create_anonymization_action
create_anonymization_action ==
    [kind |-> "anonymization", matcher |-> "none", match_value |-> <<>>, strict_mode |-> FALSE]

\* RemovalAction.check
RemovalAction_check(act, param_name) ==
    IF act.matcher = "prefix"
    THEN PrefixMatcher_matches(act.match_value, act.strict_mode, param_name)
    ELSE PatternMatcher_matches(act.match_value, act.strict_mode, param_name)

\* a check that accepts every string value
AnonymizationAction_check_AnyString(param_value) == Returned(param_value.is_str)
\* AnonymizationAction.check
AnonymizationAction_check(param_value) ==
    Returned(EmailMatcher_contains_email(param_value))

\* value.get("name", key)
ParamName(entry) == IF entry.has_name THEN entry.name ELSE entry.key

\* self.affected_parameters[object_id].append(param_name)
Record(affected, object_id, param_name) ==
    IF \E k \in 1..Len(affected) : affected[k].id = object_id
    THEN [k \in 1..Len(affected) |->
             IF affected[k].id = object_id
             THEN [affected[k] EXCEPT !.names = Append(@, param_name)]
             ELSE affected[k]]
    ELSE Append(affected, [id |-> object_id, names |-> <<param_name>>])

\* The state a walk threads through: the live mapping d, the walker's and
\* the action's fields, and parameter, the parameter object last handed to
\* apply as the call left it.
\* RemovalAction.apply, on a dict container; the parameter is only read
RemovalAction_apply(st, entry, object_id) ==
    [st EXCEPT !.d = DictPop(st.d, entry.key),
               !.affected = Record(st.affected, object_id, ParamName(entry)),
               !.parameter = entry]

\* The parameter handed to apply is an object of its own.  entry is its
\* content, entry.key the parameter_key of the call, and at the place the
\* object has in the container: the position of the item that is this very
\* object, or 0 when the container does not hold it.

\* the position of the item kept under a key, 0 when there is none
PositionOf(d, key) ==
    IF key \in KeysOf(d) THEN CHOOSE k \in 1..Len(d) : d[k].key = key ELSE 0

\* lines 178-191: the parameter object after AnonymizationAction.apply;
\* parameter["value"] = anonymized_value is the only write to it
AnonymizedParameter(entry) ==
    IF ~entry.value.is_str THEN entry
    ELSE [entry EXCEPT !.value = EmailMatcher_anonymize_email(entry.value)]

\* the container as it reads after the value of the object at position at
\* was written; a container that does not hold the object reads as before
ItemWritten(d, at, value) ==
    [k \in 1..Len(d) |-> IF k = at THEN [d[k] EXCEPT !.value = value] ELSE d[k]]

\* a masking that counts every string value it is applied to
AnonymizationAction_apply_CountsCalls(st, entry, at, object_id) ==
    IF ~entry.value.is_str THEN [st EXCEPT !.parameter = entry]
    ELSE LET anonymized_value == AnonymizedParameter(entry).value
         IN  IF anonymized_value = entry.value
             THEN [st EXCEPT !.parameter = entry, !.count = st.count + 1]
             ELSE [st EXCEPT
                      !.parameter = AnonymizedParameter(entry),
                      !.d = ItemWritten(st.d, at, anonymized_value),
                      !.affected = Record(st.affected, object_id, ParamName(entry)),
                      !.count = st.count + 1]
\* AnonymizationAction.apply, on a dict container: the write goes to the
\* parameter object, never to the container under parameter_key
AnonymizationAction_apply(st, entry, at, object_id) ==
    IF ~entry.value.is_str THEN [st EXCEPT !.parameter = entry]
    ELSE LET anonymized_value == AnonymizedParameter(entry).value
         IN  IF anonymized_value = entry.value THEN [st EXCEPT !.parameter = entry]
             ELSE [st EXCEPT
                      !.parameter = AnonymizedParameter(entry),
                      !.d = ItemWritten(st.d, at, anonymized_value),
                      !.affected = Record(st.affected, object_id, ParamName(entry)),
                      !.count = st.count + 1]

\* action.check: a matcher of a removal calls str methods and re / fnmatch
\* on what it is given and raises on what is no string; contains_email
\* answers False for it
Action_check(act, subject_name, subject_value) ==
    IF act.kind = "removal"
    THEN IF subject_value.is_str THEN RemovalAction_check(act, subject_name) ELSE Raised
    ELSE AnonymizationAction_check(subject_value)

\* action.apply
Action_apply(act, st, entry, at, object_id) ==
    IF act.kind = "removal"
    THEN RemovalAction_apply(st, entry, object_id)
    ELSE AnonymizationAction_apply(st, entry, at, object_id)

\* The removal and the masking on a Base container (lines 98-125, 193-205).
\* d is the container's __dict__, a mapping from a member's attribute name to
\* the member, which has a name and a value.

\* d.pop(key): KeyError when the key is absent
DictPopStrict(d, key) ==
    IF key \in KeysOf(d) THEN [raised |-> FALSE, d |-> DictPop(d, key)]
    ELSE [raised |-> TRUE, d |-> d]

\* delattr(containing_dict, key): AttributeError when there is no such member
DelAttr(d, key) ==
    IF key \in KeysOf(d) THEN [raised |-> FALSE, d |-> DictPop(d, key)]
    ELSE [raised |-> TRUE, d |-> d]

\* setattr(containing_dict, key, None): binds the member to None
SetAttrNone(d, key) ==
    [raised |-> FALSE,
     d |-> IF key \in KeysOf(d)
           THEN DictReplace(d, key, [key |-> key, name |-> <<>>, value |-> Num,
                                     is_parameter |-> FALSE, has_value |-> FALSE])
           ELSE Append(d, [key |-> key, name |-> <<>>, value |-> Num,
                           is_parameter |-> FALSE, has_value |-> FALSE])]

\* containing_dict.get_dynamic_member_names()
DynamicMemberNames(d) == KeysOf(d)

\* parameter.get("applicationInternalName", parameter_key)
ApplicationName(has_application_name, application_name, parameter_key) ==
    IF has_application_name THEN application_name ELSE parameter_key

\* lines 98-125: the removal strategies, each tried when the one before raised.
\* The first one raises nothing (the strict pop runs only on a key that is
\* present, the other pop has a default), so it is the only one that runs.
BaseRemove(d, parameter_key, application_name) ==
    LET first == IF parameter_key \in KeysOf(d)
                 THEN DictPopStrict(d, parameter_key)
                 ELSE [raised |-> FALSE, d |-> DictPop(d, parameter_key)]
        second == DelAttr(d, parameter_key)
        third == SetAttrNone(d, parameter_key)
    IN  IF ~first.raised THEN first.d
        ELSE IF ~second.raised THEN second.d
        ELSE IF ~third.raised THEN third.d
        ELSE IF parameter_key \in DynamicMemberNames(d) /\ application_name \in KeysOf(d)
        THEN DictPop(d, application_name)
        ELSE d

\* a removal that records the parameter only when a member was removed
RemovalAction_apply_Base_RecordIfRemoved(st, entry, application_name, object_id) ==
    IF BaseRemove(st.d, entry.key, application_name) = st.d
    THEN [st EXCEPT !.parameter = entry]
    ELSE [st EXCEPT !.d = BaseRemove(st.d, entry.key, application_name),
                    !.affected = Record(st.affected, object_id, ParamName(entry)),
                    !.parameter = entry]
\* RemovalAction.apply, on a Base container; the parameter is only read
RemovalAction_apply_Base(st, entry, application_name, object_id) ==
    [st EXCEPT !.d = BaseRemove(st.d, entry.key, application_name),
               !.affected = Record(st.affected, object_id, ParamName(entry)),
               !.parameter = entry]

\* param_obj is not None and hasattr(param_obj, "value")
HasValueAttribute(member) == member.has_value

\* lines 193-205: the member found under the key takes the masked value
\* when it has a value attribute, and is left as it is when it has none;
\* with no member under the key nothing is written
BaseSetValue(d, key, anonymized_value) ==
    [k \in 1..Len(d) |-> IF d[k].key = key /\ HasValueAttribute(d[k])
                         THEN [d[k] EXCEPT !.value = anonymized_value]
                         ELSE d[k]]

\* AnonymizationAction.apply, on a Base container: the parameter is a dict
\* of the caller's, no member of the container; it is written as
\* AnonymizedParameter says, and the member under the key as BaseSetValue says
AnonymizationAction_apply_Base(st, entry, object_id) ==
    IF ~entry.value.is_str THEN [st EXCEPT !.parameter = entry]
    ELSE LET anonymized_value == AnonymizedParameter(entry).value
         IN  IF anonymized_value = entry.value THEN [st EXCEPT !.parameter = entry]
             ELSE [st EXCEPT
                      !.parameter = AnonymizedParameter(entry),
                      !.d = BaseSetValue(st.d, entry.key, anonymized_value),
                      !.affected = Record(st.affected, object_id, ParamName(entry)),
                      !.count = st.count + 1]

----------------------------------------------------------------------------
(* ParameterProcessor *)

\* a leaf test that asks for the "name" field instead of the "value" field
IsParameterLeaf_ByName(entry) == entry.kind = "param" /\ entry.has_name

\* isinstance(value, dict) and "value" in value
IsParameterLeaf(entry) == entry.kind = "param"

\* elif isinstance(value, dict)
IsNestedDict(entry) == entry.kind = "group"

\* list(properties_dict.items())
ItemsSnapshot(d) == d

\* what is handed to action.check: value.get("value", "") when check_values,
\* else param_name
CheckSubjectKind(chk_values) == IF chk_values THEN "value" ELSE "name"

\* ParameterProcessor.process_properties_dict: the loop over the snapshot
\* from item i on, and the recursion into nested dicts
RECURSIVE ProcessItems(_, _, _, _, _, _)
ProcessItems(act, chk_values, items, i, object_id, st) ==
    IF i > Len(items) \/ st.raised THEN st
    ELSE LET entry == items[i]
         IN  IF IsParameterLeaf(entry)
             THEN LET r == IF chk_values
                           THEN Action_check(act, entry.value.s, entry.value)
                           ELSE Action_check(act, ParamName(entry), Str(ParamName(entry)))
                      st1 == [st EXCEPT !.checks = @ \cup {CheckSubjectKind(chk_values)}]
                  IN  IF r.raised
                      THEN [st1 EXCEPT !.raised = TRUE]
                      ELSE IF r.value
                      THEN ProcessItems(act, chk_values, items, i + 1, object_id,
                               [Action_apply(act, st1, entry,
                                             PositionOf(st1.d, entry.key), object_id)
                                   EXCEPT !.processed = @ \cup {object_id}])
                      ELSE ProcessItems(act, chk_values, items, i + 1, object_id, st1)
             ELSE IF IsNestedDict(entry)
             THEN LET inner == ProcessItems(act, chk_values, ItemsSnapshot(entry.sub), 1,
                                            object_id, [st EXCEPT !.d = entry.sub])
                      st1 == [inner EXCEPT
                                 !.d = DictReplace(st.d, entry.key,
                                                   [entry EXCEPT !.sub = inner.d])]
                  IN  ProcessItems(act, chk_values, items, i + 1, object_id, st1)
             ELSE ProcessItems(act, chk_values, items, i + 1, object_id, st)

process_properties_dict(act, chk_values, properties_dict, object_id, st) ==
    ProcessItems(act, chk_values, ItemsSnapshot(properties_dict), 1, object_id,
                 [st EXCEPT !.d = properties_dict])

\* ParameterProcessor.process_context: properties are walked, the legacy
\* parameters are left alone ("pass")
process_context(act, chk_values, current_object, st) ==
    IF current_object.has_properties
    THEN process_properties_dict(act, chk_values, current_object.properties,
                                 current_object.id, st)
    ELSE [st EXCEPT !.d = current_object.properties]

\* ParameterProcessor.process_revit_parameters, lines 178-212: the loop over
\* the member names listed before it starts, from name i on.  st.d is the
\* __dict__ of current_object.parameters.  A name whose member is gone or is
\* no Revit parameter is skipped; the parameter handed to apply carries the
\* member's name and value, and the member's key as applicationInternalName.
RECURSIVE ProcessMembers(_, _, _, _, _, _)
ProcessMembers(act, chk_values, names, i, object_id, st) ==
    IF i > Len(names) \/ st.raised THEN st
    ELSE LET parameter_key == names[i]
         IN  IF parameter_key \notin KeysOf(st.d)
             THEN ProcessMembers(act, chk_values, names, i + 1, object_id, st)
             ELSE LET \* value_to_check: getattr(param_obj, "value", "")
                      param_obj == st.d[CHOOSE k \in 1..Len(st.d) : st.d[k].key = parameter_key]
                      value_to_check == IF HasValueAttribute(param_obj)
                                        THEN param_obj.value ELSE Str(<<>>)
                      param_dict == [key |-> parameter_key, kind |-> "param",
                                     has_name |-> TRUE, name |-> param_obj.name,
                                     value |-> value_to_check, sub |-> <<>>]
                      checked == IF chk_values THEN value_to_check.is_str ELSE TRUE
                      r == IF chk_values
                           THEN Action_check(act, value_to_check.s, value_to_check)
                           ELSE Action_check(act, param_obj.name, Str(param_obj.name))
                      st1 == IF checked
                             THEN [st EXCEPT !.checks = @ \cup {CheckSubjectKind(chk_values)}]
                             ELSE st
                  IN  IF ~param_obj.is_parameter \/ ~checked
                      THEN ProcessMembers(act, chk_values, names, i + 1, object_id, st)
                      ELSE IF r.raised THEN [st1 EXCEPT !.raised = TRUE]
                      ELSE IF r.value
                      THEN ProcessMembers(act, chk_values, names, i + 1, object_id,
                               [(IF act.kind = "removal"
                                 THEN RemovalAction_apply_Base(st1, param_dict,
                                                               parameter_key, object_id)
                                 ELSE AnonymizationAction_apply_Base(st1, param_dict,
                                                                     object_id))
                                   EXCEPT !.processed = @ \cup {object_id}])
                      ELSE ProcessMembers(act, chk_values, names, i + 1, object_id, st1)

\* ParameterProcessor.process_revit_parameters: nothing to do for a node
\* without parameters (lines 171-172)
process_revit_parameters(act, chk_values, current_object, st) ==
    IF ~current_object.has_parameters THEN [st EXCEPT !.d = current_object.parameters]
    ELSE ProcessMembers(act, chk_values,
                        [k \in 1..Len(current_object.parameters)
                            |-> current_object.parameters[k].key],
                        1, current_object.id,
                        [st EXCEPT !.d = current_object.parameters])

----------------------------------------------------------------------------
(* The run: automate_function *)

Modes == {"PREFIX_MATCHING", "PATTERN_MATCHING", "ANONYMIZATION"}

\* parameter_input values of the runs: none, a prefix / literal glob, a glob,
\* the degenerate regexes, a regex that does not compile, a regex with /i
RunInputs ==
    {<<>>, <<"i">>, <<"i", "*">>, <<"/">>, <<"/", "/">>, <<"/", "*", "/">>,
     <<"/", "I", "/", "i">>}

FunctionInputs == [sanitization_mode : Modes, parameter_input : RunInputs, strict_mode : BOOLEAN]

Email1 == <<"a", "b", "c", "@", "x", ".", "a", "b">>

\* a legacy parameter: a member of node.parameters
\* is_parameter: the member is a Base whose speckle_type is
\* "Objects.BuiltElements.Revit.Parameter"
\* has_value: the member is an object with a value attribute
LegacyParam(key, name, value) ==
    [key |-> key, name |-> name, value |-> value, is_parameter |-> TRUE,
     has_value |-> TRUE]

\* a member that is a Base of another speckle_type, with a name and a value
LegacyBase(key, name, value) ==
    [key |-> key, name |-> name, value |-> value, is_parameter |-> FALSE,
     has_value |-> TRUE]

\* a member of node.parameters that is no Revit parameter: a plain value
\* (a number, None), with no name and no value attribute
LegacyOther(key) ==
    [key |-> key, name |-> <<>>, value |-> Num, is_parameter |-> FALSE,
     has_value |-> FALSE]

\* the nodes a received version is made of (ids are given by position)
NodeShapes ==
    { Node("", FALSE, <<>>, FALSE, <<>>),
      Node("", TRUE, <<Other(<<"/">>), Param(<<"i">>, FALSE, <<>>, Str(<<"x">>))>>, FALSE, <<>>),
      Node("", TRUE, <<Param(<<"i">>, TRUE, <<"I", "i">>, Str(<<"x">>)),
                       Param(<<"I">>, FALSE, <<>>, Str(Email1))>>, FALSE, <<>>),
      Node("", TRUE, <<Group(<<"/">>, <<Param(<<"I">>, TRUE, <<"i">>, Str(Email1)),
                                        Other(<<"i">>)>>),
                       Param(<<"i">>, TRUE, <<"/">>, Num)>>, FALSE, <<>>),
      Node("", FALSE, <<>>, TRUE, <<LegacyParam(<<"i">>, <<"i">>, Str(Email1))>>),
      Node("", TRUE, <<Param(<<"/">>, TRUE, <<"/">>, Str(<<"x">>))>>, FALSE, <<>>) }

NodeId(k) == <<"n", k>>

Graphs ==
    UNION {{[k \in 1..n |-> [g[k] EXCEPT !.id = NodeId(k)]] : g \in [1..n -> NodeShapes]}
           : n \in 0..MaxNodes}

Call(op, msg) == [op |-> op, msg |-> msg, object_ids |-> <<>>, names |-> {}]

Init ==
    /\ pc = "select"
    /\ inputs \in FunctionInputs
    /\ action = NoAction
    /\ check_values = FALSE
    /\ graph = <<>>
    /\ graph0 = <<>>
    /\ idx = 0
    /\ processed_objects = {}
    /\ affected_parameters = <<>>
    /\ anonymized_count = 0
    /\ calls = <<>>
    /\ checks = {}
    /\ arg = <<>>
    /\ ret = <<>>

\* a selection that does not require the prefix / pattern input
SelectedAction_NoInputCheck(in) ==
    IF in.sanitization_mode = "PREFIX_MATCHING"
    THEN create_prefix_removal_action(in.parameter_input, in.strict_mode)
    ELSE IF in.sanitization_mode = "PATTERN_MATCHING"
    THEN create_pattern_removal_action(in.parameter_input, in.strict_mode)
    ELSE create_anonymization_action

\* the action the sanitization mode selects (lines 30-46); NoAction when the
\* required input is missing
SelectedAction(in) ==
    IF in.sanitization_mode = "PREFIX_MATCHING"
    THEN IF in.parameter_input = <<>> THEN NoAction
         ELSE create_prefix_removal_action(in.parameter_input, in.strict_mode)
    ELSE IF in.sanitization_mode = "PATTERN_MATCHING"
    THEN IF in.parameter_input = <<>> THEN NoAction
         ELSE create_pattern_removal_action(in.parameter_input, in.strict_mode)
    ELSE IF in.sanitization_mode = "ANONYMIZATION"
    THEN create_anonymization_action
    ELSE NoAction

\* a selection that leaves check_values at its default
SelectedCheckValues_Default(in) == FALSE

\* check_values as the sanitization mode sets it (lines 28, 46)
SelectedCheckValues(in) == in.sanitization_mode = "ANONYMIZATION"

\* the message of the early mark_run_failed
SelectFailure(in) ==
    IF in.sanitization_mode = "PREFIX_MATCHING" /\ in.parameter_input = <<>>
    THEN "No parameter prefix has been set for PREFIX_MATCHING mode."
    ELSE IF in.sanitization_mode = "PATTERN_MATCHING" /\ in.parameter_input = <<>>
    THEN "No parameter pattern has been set for PATTERN_MATCHING mode."
    ELSE "Failed to create a valid action."

\* automate_function, lines 27-50: select the action or fail the run; a
\* created action starts with an empty result set and a counter of 0
\* (actions.py, lines 49-51 and 154)
SelectAction ==
    /\ pc = "select"
    /\ IF SelectedAction(inputs) = NoAction
       THEN /\ calls' = Append(calls, Call("mark_run_failed", SelectFailure(inputs)))
            /\ pc' = "done"
            /\ UNCHANGED <<action, check_values, affected_parameters, anonymized_count>>
       ELSE /\ action' = SelectedAction(inputs)
            /\ check_values' = SelectedCheckValues(inputs)
            /\ affected_parameters' = <<>>
            /\ anonymized_count' = 0
            /\ pc' = "ready"
            /\ UNCHANGED calls
    /\ UNCHANGED <<inputs, graph, graph0, idx, processed_objects, checks, arg, ret>>

\* a processor that is handed the processed_objects of the run before
ReceiveVersionFrom_KeepsProcessed(versions) ==
    /\ pc = "ready"
    /\ \E g \in versions :
          /\ graph' = g
          /\ graph0' = g
    /\ idx' = 1
    /\ calls' = calls \o <<Call("receive_version", ""), Call("model_get", "")>>
    /\ pc' = "traversing"
    /\ UNCHANGED <<inputs, action, check_values, processed_objects, affected_parameters,
                   anonymized_count, checks, arg, ret>>
\* automate_function, lines 53-68: the processor is created, the version is
\* received and its traversal obtained
ReceiveVersionFrom(versions) ==
    /\ pc = "ready"
    /\ \E g \in versions :
          /\ graph' = g
          /\ graph0' = g
    /\ processed_objects' = {}
    /\ idx' = 1
    /\ calls' = calls \o <<Call("receive_version", ""), Call("model_get", "")>>
    /\ pc' = "traversing"
    /\ UNCHANGED <<inputs, action, check_values, affected_parameters, anonymized_count,
                   checks, arg, ret>>

\* the run receives any of the versions
ReceiveVersion == ReceiveVersionFrom(Graphs)

WalkState ==
    [d |-> <<>>, raised |-> FALSE, processed |-> processed_objects,
     affected |-> affected_parameters, count |-> anonymized_count, checks |-> checks,
     parameter |-> <<>>]

\* automate_function, lines 70-71: processor.process_context(context) for the
\* next context; an exception of the matcher leaves automate_function
ProcessContext ==
    /\ pc = "traversing"
    /\ idx <= Len(graph)
    /\ LET st == process_context(action, check_values, graph[idx], WalkState)
       IN  /\ graph' = [graph EXCEPT ![idx].properties = st.d]
           /\ processed_objects' = st.processed
           /\ affected_parameters' = st.affected
           /\ anonymized_count' = st.count
           /\ checks' = st.checks
           /\ pc' = IF st.raised THEN "raised" ELSE "traversing"
    /\ idx' = idx + 1
    /\ UNCHANGED <<inputs, action, check_values, graph0, calls, arg, ret>>

\* {param for params in affected_parameters.values() for param in params}
AffectedNames(affected) ==
    UNION {{affected[k].names[j] : j \in 1..Len(affected[k].names)} : k \in 1..Len(affected)}

\* list(self.affected_parameters.keys())
AffectedIds(affected) == [k \in 1..Len(affected) |-> affected[k].id]

ReportCategory(act) ==
    IF act.kind = "removal" THEN "Removed_Parameters" ELSE "Anonymized_Parameters"

\* a report that does not return on an empty result set
Action_report_Always(act, affected) ==
    <<[op |-> "attach_info_to_objects", msg |-> ReportCategory(act),
       object_ids |-> AffectedIds(affected), names |-> AffectedNames(affected)]>>
\* RemovalAction.report / AnonymizationAction.report: the calls made on the sink
Action_report(act, affected) ==
    IF affected = <<>> THEN <<>>
    ELSE <<[op |-> "attach_info_to_objects", msg |-> ReportCategory(act),
            object_ids |-> AffectedIds(affected), names |-> AffectedNames(affected)]>>

\* the end of the traversal without the early return of line 75
FinishTraversal_NoReturn ==
    /\ pc = "traversing"
    /\ idx > Len(graph)
    /\ calls' = (IF processed_objects = {}
                 THEN Append(calls, Call("mark_run_success", "No parameters were processed."))
                 ELSE calls)
                \o <<Call("report", "")>> \o Action_report(action, affected_parameters)
    /\ pc' = "committing"
    /\ UNCHANGED <<inputs, action, check_values, graph, graph0, idx, processed_objects,
                   affected_parameters, anonymized_count, checks, arg, ret>>

\* automate_function, lines 73-78, once the traversal is exhausted: nothing
\* processed ends the run, else the action reports
FinishTraversal ==
    /\ pc = "traversing"
    /\ idx > Len(graph)
    /\ IF processed_objects = {}
       THEN /\ calls' = Append(calls, Call("mark_run_success", "No parameters were processed."))
            /\ pc' = "done"
       ELSE /\ calls' = Append(calls, Call("report", ""))
                           \o Action_report(action, affected_parameters)
            /\ pc' = "committing"
    /\ UNCHANGED <<inputs, action, check_values, graph, graph0, idx, processed_objects,
                   affected_parameters, anonymized_count, checks, arg, ret>>

\* the message of lines 92-96; the mode is formatted as the Enum member is,
\* "SanitizationMode." and the member's name
SuccessMessage(in) ==
    IF in.sanitization_mode = "PREFIX_MATCHING"
    THEN IF in.strict_mode
         THEN "Parameters processed successfully with shield function SanitizationMode.PREFIX_MATCHING running in strict mode."
         ELSE "Parameters processed successfully with shield function SanitizationMode.PREFIX_MATCHING."
    ELSE IF in.sanitization_mode = "PATTERN_MATCHING"
    THEN IF in.strict_mode
         THEN "Parameters processed successfully with shield function SanitizationMode.PATTERN_MATCHING running in strict mode."
         ELSE "Parameters processed successfully with shield function SanitizationMode.PATTERN_MATCHING."
    ELSE IF in.strict_mode
         THEN "Parameters processed successfully with shield function SanitizationMode.ANONYMIZATION running in strict mode."
         ELSE "Parameters processed successfully with shield function SanitizationMode.ANONYMIZATION."

\* the commit without the test of new_version_id (lines 85-87)
CreateNewVersion_IgnoresFailure ==
    /\ pc = "committing"
    /\ \E new_version_id \in {"", "v1"} :
          calls' = calls \o
              <<Call("create_new_version_in_project", new_version_id),
                Call("set_context_view", ""),
                Call("mark_run_success", SuccessMessage(inputs))>>
    /\ pc' = "done"
    /\ UNCHANGED <<inputs, action, check_values, graph, graph0, idx, processed_objects,
                   affected_parameters, anonymized_count, checks, arg, ret>>

\* a commit that puts the received graph back when no version was created
CreateNewVersion_RollsBack ==
    /\ pc = "committing"
    /\ \E new_version_id \in {"", "v1"} :
          /\ calls' = calls \o
                (IF new_version_id = ""
                 THEN <<Call("create_new_version_in_project", new_version_id),
                        Call("mark_run_failed", "Failed to create a new version.")>>
                 ELSE <<Call("create_new_version_in_project", new_version_id),
                        Call("set_context_view", ""),
                        Call("mark_run_success", SuccessMessage(inputs))>>)
          /\ graph' = IF new_version_id = "" THEN graph0 ELSE graph
    /\ pc' = "done"
    /\ UNCHANGED <<inputs, action, check_values, graph0, idx, processed_objects,
                   affected_parameters, anonymized_count, checks, arg, ret>>
\* automate_function, lines 81-96: the new version is created, or not
CreateNewVersion ==
    /\ pc = "committing"
    /\ \E new_version_id \in {"", "v1"} :
          calls' = calls \o
              (IF new_version_id = ""
               THEN <<Call("create_new_version_in_project", new_version_id),
                      Call("mark_run_failed", "Failed to create a new version.")>>
               ELSE <<Call("create_new_version_in_project", new_version_id),
                      Call("set_context_view", ""),
                      Call("mark_run_success", SuccessMessage(inputs))>>)
    /\ pc' = "done"
    /\ UNCHANGED <<inputs, action, check_values, graph, graph0, idx, processed_objects,
                   affected_parameters, anonymized_count, checks, arg, ret>>

Next == SelectAction \/ ReceiveVersion \/ ProcessContext \/ FinishTraversal \/ CreateNewVersion

Spec == Init /\ [][Next]_vars

----------------------------------------------------------------------------
(* The walker on one node, for every small properties mapping *)

WalkKeys == {<<"i">>, <<"/">>}
WalkValues == {Str(<<"x">>), Str(Email1)}

\* the entries that hold no nested mapping
FlatEntries ==
    {Other(k) : k \in WalkKeys}
    \cup {Param(k, FALSE, <<>>, v) : k \in WalkKeys, v \in WalkValues}
    \cup {Param(k, TRUE, n, v) : k \in WalkKeys, n \in WalkKeys, v \in WalkValues}

\* number of entries of a mapping, nested ones included
RECURSIVE MapSize(_)
MapSize(d) == IF d = <<>> THEN 0 ELSE 1 + MapSize(d[1].sub) + MapSize(Tail(d))

\* the mappings of at most b entries, keys distinct within each mapping
RECURSIVE Maps(_)
Maps(b) ==
    IF b = 0 THEN {<<>>}
    ELSE LET firsts == FlatEntries \cup {Group(k, m) : k \in WalkKeys, m \in Maps(b - 1)}
         IN  {<<>>} \cup
             UNION {{<<e>> \o r : r \in {m \in Maps(b - 1 - MapSize(e.sub)) :
                                           e.key \notin KeysOf(m)}}
                    : e \in firsts}

\* the configurations of the walks: a prefix / literal glob, and a regex that
\* does not compile
WalkInputs ==
    {in \in FunctionInputs : in.parameter_input \in {<<"i">>, <<"/", "*", "/">>}}

InitWalk ==
    /\ pc = "traversing"
    /\ inputs \in WalkInputs
    /\ action = SelectedAction(inputs)
    /\ check_values = SelectedCheckValues(inputs)
    /\ \E m \in Maps(MaxEntries) :
          /\ graph = <<Node(NodeId(1), TRUE, m, FALSE, <<>>)>>
          /\ graph0 = graph
    /\ idx = 1
    /\ processed_objects = {}
    /\ affected_parameters = <<>>
    /\ anonymized_count = 0
    /\ calls = <<Call("receive_version", ""), Call("model_get", "")>>
    /\ checks = {}
    /\ arg = <<>>
    /\ ret = <<>>

NextWalk == ProcessContext

SpecWalk == InitWalk /\ [][NextWalk]_vars

\* processor.process_context(context) once more for a context that has been
\* processed; ret keeps what the node, the result set and processed_objects
\* were before this call
ProcessContextAgain ==
    /\ pc = "traversing"
    /\ \E k \in 1..(idx - 1) :
          LET st == process_context(action, check_values, graph[k], WalkState)
          IN  /\ graph' = [graph EXCEPT ![k].properties = st.d]
              /\ processed_objects' = st.processed
              /\ affected_parameters' = st.affected
              /\ anonymized_count' = st.count
              /\ checks' = st.checks
              /\ pc' = IF st.raised THEN "raised" ELSE "processed_again"
              /\ arg' = k
    /\ ret' = [graph |-> graph, affected_parameters |-> affected_parameters,
               processed_objects |-> processed_objects]
    /\ UNCHANGED <<inputs, action, check_values, graph0, idx, calls>>

NextWalkTwice == ProcessContext \/ ProcessContextAgain

SpecWalkTwice == InitWalk /\ [][NextWalkTwice]_vars

----------------------------------------------------------------------------
(* The matchers as functions of their inputs *)

NoCall == [fn |-> "none", raised |-> FALSE, value |-> FALSE]

Idle ==
    /\ inputs = [sanitization_mode |-> "none", parameter_input |-> <<>>, strict_mode |-> FALSE]
    /\ action = NoAction
    /\ check_values = FALSE
    /\ graph = <<>>
    /\ graph0 = <<>>
    /\ idx = 0
    /\ processed_objects = {}
    /\ affected_parameters = <<>>
    /\ anonymized_count = 0
    /\ calls = <<>>
    /\ checks = {}

InitMatch ==
    /\ pc = "call"
    /\ arg \in [pattern : StrsUpTo(PatChars, MaxPatLen),
                name : StrsUpTo(NameChars, MaxNameLen),
                strict : BOOLEAN]
    /\ ret = NoCall
    /\ Idle

CallPrefixMatches ==
    /\ pc = "call"
    /\ pc' = "returned"
    /\ ret' = [fn |-> "prefix"] @@ PrefixMatcher_matches(arg.pattern, arg.strict, arg.name)
    /\ UNCHANGED <<inputs, action, check_values, graph, graph0, idx, processed_objects,
                   affected_parameters, anonymized_count, calls, checks, arg>>

CallPatternMatches ==
    /\ pc = "call"
    /\ pc' = "returned"
    /\ ret' = [fn |-> "pattern"] @@ PatternMatcher_matches(arg.pattern, arg.strict, arg.name)
    /\ UNCHANGED <<inputs, action, check_values, graph, graph0, idx, processed_objects,
                   affected_parameters, anonymized_count, calls, checks, arg>>

NextMatch == CallPrefixMatches \/ CallPatternMatches

SpecMatch == InitMatch /\ [][NextMatch]_vars

----------------------------------------------------------------------------
(* EmailMatcher.anonymize_email as a function of its input, called twice in *)
(* a row on one matcher: on a value, on what that call returned, and on the  *)
(* value again                                                              *)

MaxLocalLen == 4
MaxTextLen == 5

TextChars == {"a", ".", "@", " "}

\* the domains of the addresses: a plain one, one with two dots, one whose
\* last label is too short for the pattern
MaskDomains ==
    {<<"x", ".", "a", "b">>, <<"x", ".", "a", ".", "b", "c">>, <<"x", ".", "a">>}

\* local part, "@", domain
MaskEmails ==
    {l \o <<"@">> \o d : l \in StrsUpTo({"a", "b", "."}, MaxLocalLen) \ {<<>>},
                         d \in MaskDomains}

\* what follows the first word: nothing, a second address, a dangling domain
MaskTails ==
    {<<>>, <<"b", "@", "x", ".", "a", "b">>, <<"a", "b", ".", "@", "x", ".", "a", "b">>,
     <<"@", "x", ".", "a", "b">>}

\* the values handed to anonymize_email: an address or any short text, then
\* possibly a blank, then a tail; and a value that is no string
MaskValues ==
    {Str(w \o sep \o t) : w \in MaskEmails \cup StrsUpTo(TextChars, MaxTextLen),
                          sep \in {<<>>, <<" ">>}, t \in MaskTails}
    \cup {Num}

InitMask ==
    /\ pc = "call"
    /\ arg \in MaskValues
    /\ ret = <<>>
    /\ Idle

\* matcher.anonymize_email(value)
CallAnonymizeEmail ==
    /\ pc = "call"
    /\ pc' = "masked"
    /\ ret' = <<EmailMatcher_anonymize_email(arg)>>
    /\ UNCHANGED <<inputs, action, check_values, graph, graph0, idx, processed_objects,
                   affected_parameters, anonymized_count, calls, checks, arg>>

\* matcher.anonymize_email(masked): the same matcher on its own result
CallAnonymizeEmailAgain ==
    /\ pc = "masked"
    /\ pc' = "masked_twice"
    /\ ret' = Append(ret, EmailMatcher_anonymize_email(ret[1]))
    /\ UNCHANGED <<inputs, action, check_values, graph, graph0, idx, processed_objects,
                   affected_parameters, anonymized_count, calls, checks, arg>>

\* matcher.anonymize_email(value) once more, after the calls above
CallAnonymizeEmailSame ==
    /\ pc = "masked_twice"
    /\ pc' = "called_again"
    /\ ret' = Append(ret, EmailMatcher_anonymize_email(arg))
    /\ UNCHANGED <<inputs, action, check_values, graph, graph0, idx, processed_objects,
                   affected_parameters, anonymized_count, calls, checks, arg>>

NextMask == CallAnonymizeEmail \/ CallAnonymizeEmailAgain \/ CallAnonymizeEmailSame

SpecMask == InitMask /\ [][NextMask]_vars

----------------------------------------------------------------------------
(* An Action on its own: apply called on parameters of dict and of Base    *)
(* containers of two nodes, the processor's walk of a node's legacy        *)
(* parameters, then report                                                 *)

MaxApplies == 2

ApplyKeys == {<<"i">>, <<"/">>}

\* the alternate name a parameter may carry
AlternateName == <<"I">>

\* a node with a dict of properties and no legacy parameters
ApplyPlainNode ==
    Node("", TRUE, <<Param(<<"/">>, TRUE, <<"i">>, Str(Email1))>>, FALSE, <<>>)

\* the nodes: properties is a dict; parameters, when there are any, a Base
\* whose members are kept under their attribute names: Revit parameters, a
\* Base of another type that has a value, a plain value
ApplyNodeShapes ==
    { Node("", TRUE, <<Param(<<"i">>, TRUE, <<"I">>, Str(Email1)),
                       Param(<<"/">>, FALSE, <<>>, Str(<<"x">>))>>,
           TRUE, <<LegacyParam(<<"i">>, <<"i">>, Str(Email1)),
                   LegacyParam(AlternateName, <<"/">>, Str(<<"x">>)),
                   LegacyBase(<<"/">>, <<"/">>, Str(Email1))>>),
      Node("", TRUE, <<Param(<<"i">>, FALSE, <<>>, Num)>>,
           TRUE, <<LegacyParam(AlternateName, <<"i">>, Str(Email1)), LegacyOther(<<"/">>)>>),
      ApplyPlainNode }

\* two nodes, for the bookkeeping across nodes: the first of any shape, the
\* second with a dict and no legacy parameters
ApplyGraphs ==
    {<<[a EXCEPT !.id = NodeId(1)], [ApplyPlainNode EXCEPT !.id = NodeId(2)]>> :
         a \in ApplyNodeShapes}

InitAction ==
    /\ pc = "applying"
    /\ inputs = [sanitization_mode |-> "none", parameter_input |-> <<>>, strict_mode |-> FALSE]
    /\ action \in {create_prefix_removal_action(<<"i">>, FALSE), create_anonymization_action}
    /\ check_values = (action.kind = "anonymization")
    /\ graph \in ApplyGraphs
    /\ graph0 = graph
    /\ idx = 0
    /\ processed_objects = {}
    /\ affected_parameters = <<>>
    /\ anonymized_count = 0
    /\ calls = <<>>
    /\ checks = {}
    /\ arg = <<>>
    /\ ret = <<>>

\* the parameters a caller makes itself for a key: one with a name and an
\* e-mail address as the value, one with neither
DetachedParameters(key) ==
    {Param(key, TRUE, <<"n">>, Str(Email1)), Param(key, FALSE, <<>>, Str(<<"x">>))}

\* the parameters handed to apply on a dict for a key: the item the dict
\* holds at position at (under the key or under another one), or, at being
\* 0, a parameter the dict does not hold
DictParameters(d, key, at) ==
    IF at > 0 THEN {[d[at] EXCEPT !.key = key]} ELSE DetachedParameters(key)

\* param_dict of lines 190-194 for a member of a Base, or a parameter whose
\* key names no member
BaseParameter(d, key) ==
    IF key \in KeysOf(d)
    THEN LET m == d[CHOOSE k \in 1..Len(d) : d[k].key = key]
         IN  Param(key, TRUE, m.name,
                   IF HasValueAttribute(m) THEN m.value ELSE Str(<<>>))
    ELSE Param(key, FALSE, <<>>, Str(<<"x">>))

\* action.apply(parameter, node, node.properties, key)
CallApplyOnDict ==
    /\ pc = "applying"
    /\ idx < MaxApplies
    /\ \E n \in 1..Len(graph), key \in ApplyKeys :
          /\ graph[n].has_properties
          /\ \E at \in 0..Len(graph[n].properties) :
                \E parameter \in DictParameters(graph[n].properties, key, at) :
                   LET st == Action_apply(action,
                                          [WalkState EXCEPT !.d = graph[n].properties],
                                          parameter, at, graph[n].id)
                   IN  /\ graph' = [graph EXCEPT ![n].properties = st.d]
                       /\ affected_parameters' = st.affected
                       /\ anonymized_count' = st.count
                       /\ arg' = [node |-> n, container |-> "dict", key |-> key,
                                  application_name |-> key, parameter |-> parameter,
                                  at |-> at,
                                  parameter_after |-> st.parameter]
    /\ idx' = idx + 1
    /\ UNCHANGED <<pc, inputs, action, check_values, graph0, processed_objects, calls,
                   checks, ret>>

\* action.apply(param_dict, node, node.parameters, key), the parameter
\* built from the member under the key or made by the caller, and carrying
\* an applicationInternalName or not; the container never holds the
\* parameter, which is a dict
CallApplyOnBase ==
    /\ pc = "applying"
    /\ idx < MaxApplies
    /\ \E n \in 1..Len(graph), key \in ApplyKeys, has_application_name \in BOOLEAN :
          /\ graph[n].has_parameters
          /\ \E parameter \in {BaseParameter(graph[n].parameters, key)}
                                  \cup DetachedParameters(key) :
                LET application_name ==
                        ApplicationName(has_application_name, AlternateName, key)
                    st0 == [WalkState EXCEPT !.d = graph[n].parameters]
                    st == IF action.kind = "removal"
                          THEN RemovalAction_apply_Base(st0, parameter, application_name,
                                                        graph[n].id)
                          ELSE AnonymizationAction_apply_Base(st0, parameter, graph[n].id)
                IN  /\ graph' = [graph EXCEPT ![n].parameters = st.d]
                    /\ affected_parameters' = st.affected
                    /\ anonymized_count' = st.count
                    /\ arg' = [node |-> n, container |-> "base", key |-> key,
                               application_name |-> application_name,
                               parameter |-> parameter, at |-> 0,
                               parameter_after |-> st.parameter]
    /\ idx' = idx + 1
    /\ UNCHANGED <<pc, inputs, action, check_values, graph0, processed_objects, calls,
                   checks, ret>>

\* processor.process_revit_parameters(node), the processor holding the
\* action and check_values
CallProcessRevitParameters ==
    /\ pc = "applying"
    /\ \E n \in 1..Len(graph) :
          LET st == process_revit_parameters(action, check_values, graph[n], WalkState)
          IN  /\ graph' = [graph EXCEPT ![n].parameters = st.d]
              /\ processed_objects' = st.processed
              /\ affected_parameters' = st.affected
              /\ anonymized_count' = st.count
              /\ checks' = st.checks
              /\ pc' = IF st.raised THEN "raised" ELSE "applying"
    /\ UNCHANGED <<inputs, action, check_values, graph0, idx, calls, arg, ret>>

\* action.report(automate_context)
CallReport ==
    /\ pc = "applying"
    /\ pc' = "reported"
    /\ calls' = calls \o Action_report(action, affected_parameters)
    /\ UNCHANGED <<inputs, action, check_values, graph, graph0, idx, processed_objects,
                   affected_parameters, anonymized_count, checks, arg, ret>>

NextAction ==
    \/ CallApplyOnDict
    \/ CallApplyOnBase
    \/ CallProcessRevitParameters
    \/ CallReport

SpecAction == InitAction /\ [][NextAction]_vars

----------------------------------------------------------------------------
(* Runs in a row: automate_function is called again after it has returned  *)
(* or raised, with a context, inputs and a version of its own              *)

MaxRuns == 2

\* the configurations of the runs: a prefix, a missing prefix, the
\* anonymization, a regex that does not compile
RunsInputs ==
    {in \in FunctionInputs :
        /\ ~in.strict_mode
        /\ \/ in.sanitization_mode = "PREFIX_MATCHING" /\ in.parameter_input \in {<<>>, <<"i">>}
           \/ in.sanitization_mode = "ANONYMIZATION" /\ in.parameter_input = <<>>
           \/ in.sanitization_mode = "PATTERN_MATCHING"
                 /\ in.parameter_input = <<"/", "*", "/">>}

\* the versions of the runs: no node, a node that no configuration matches, a
\* node with a leaf for the prefix and a leaf for the anonymization
RunsGraphs ==
    {<<>>,
     <<Node(NodeId(1), TRUE, <<Other(<<"i">>)>>, FALSE, <<>>)>>,
     <<Node(NodeId(1), TRUE, <<Param(<<"i">>, TRUE, <<"I", "i">>, Str(<<"x">>)),
                               Param(<<"I">>, FALSE, <<>>, Str(Email1))>>, FALSE, <<>>)>>}

InitRuns ==
    /\ pc = "select"
    /\ inputs \in RunsInputs
    /\ action = NoAction
    /\ check_values = FALSE
    /\ graph = <<>>
    /\ graph0 = <<>>
    /\ idx = 0
    /\ processed_objects = {}
    /\ affected_parameters = <<>>
    /\ anonymized_count = 0
    /\ calls = <<>>
    /\ checks = {}
    /\ arg = <<>>
    /\ ret = <<>>

ReceiveRunVersion == ReceiveVersionFrom(RunsGraphs)

\* what a run that has ended leaves to be seen: its inputs and version, how
\* it ended, the calls made on its context and the graph in memory
RunSummary ==
    [inputs |-> inputs, graph0 |-> graph0, pc |-> pc, calls |-> calls, graph |-> graph]

\* automate_function is called again: new inputs, a new context (no calls
\* made on it yet), none of its locals bound yet; ret keeps the runs that
\* have ended.  The objects of the run before are still what they were: only
\* the lines that create the action and the processor replace them.
StartRun ==
    /\ pc \in {"done", "raised"}
    /\ Len(ret) + 1 < MaxRuns
    /\ ret' = Append(ret, RunSummary)
    /\ pc' = "select"
    /\ inputs' \in RunsInputs
    /\ action' = NoAction
    /\ check_values' = FALSE
    /\ graph' = <<>>
    /\ graph0' = <<>>
    /\ idx' = 0
    /\ calls' = <<>>
    /\ checks' = {}
    /\ UNCHANGED <<processed_objects, affected_parameters, anonymized_count, arg>>

NextRuns ==
    \/ SelectAction
    \/ ReceiveRunVersion
    \/ ProcessContext
    \/ FinishTraversal
    \/ CreateNewVersion
    \/ StartRun

SpecRuns == InitRuns /\ [][NextRuns]_vars

----------------------------------------------------------------------------
(* Properties of the run *)

CallsOf(op) == {k \in 1..Len(calls) : calls[k].op = op}
Count(op) == Cardinality(CallsOf(op))
LastCall == calls[Len(calls)]
Fetched == CallsOf("receive_version") # {}
Outcomes == CallsOf("mark_run_success") \cup CallsOf("mark_run_failed")

\* C1: whenever no node has been marked processed, neither Action.report nor
\* attach_info_to_objects nor create_new_version_in_project has been called;
\* and a run that received the version and ended with no node processed made,
\* after the fetch, the single call mark_run_success("No parameters were
\* processed.").
C1_NoMatchNoCommit ==
    processed_objects = {} =>
        /\ Count("report") = 0
        /\ Count("attach_info_to_objects") = 0
        /\ Count("create_new_version_in_project") = 0
        /\ (pc = "done" /\ Fetched) =>
              /\ [k \in 1..Len(calls) |-> calls[k].op]
                    = <<"receive_version", "model_get", "mark_run_success">>
              /\ LastCall.msg = "No parameters were processed."

\* a finished run whose walker checked parameters of two nodes and matched none
C1_Witness ==
    /\ pc = "done"
    /\ Fetched
    /\ Len(graph) = 2
    /\ checks # {}
    /\ processed_objects = {}
    /\ LastCall.op = "mark_run_success"

\* C2: in a run where a node is marked processed no exception leaves
\* automate_function, Action.report is called at most once and before any
\* create_new_version_in_project; when the run has ended report and the commit
\* were each called exactly once, and a commit that returned no version id is
\* followed by mark_run_failed, with no mark_run_success in the run.
C2_ReportOnceBeforeCommit ==
    processed_objects # {} =>
        /\ pc # "raised"
        /\ Count("report") <= 1
        /\ \A k \in CallsOf("create_new_version_in_project") :
              \E j \in CallsOf("report") : j < k
        /\ pc = "done" =>
              /\ Count("report") = 1
              /\ Count("create_new_version_in_project") = 1
              /\ \A k \in CallsOf("create_new_version_in_project") :
                    calls[k].msg = "" =>
                       /\ LastCall.op = "mark_run_failed"
                       /\ Count("mark_run_success") = 0

\* a finished run that processed a node and whose commit returned no version id
C2_Witness ==
    /\ pc = "done"
    /\ processed_objects # {}
    /\ Count("attach_info_to_objects") = 1
    /\ \E k \in CallsOf("create_new_version_in_project") : calls[k].msg = ""
    /\ LastCall.op = "mark_run_failed"

\* C3: in PREFIX_MATCHING or PATTERN_MATCHING mode with an empty
\* parameter_input the run goes from selection straight to its end with the
\* single call mark_run_failed: no version is received, nothing is traversed,
\* checked or mutated, nothing is reported or committed.
C3_MissingInputFailsAtOnce ==
    (inputs.sanitization_mode \in {"PREFIX_MATCHING", "PATTERN_MATCHING"}
        /\ inputs.parameter_input = <<>>) =>
        /\ pc \in {"select", "done"}
        /\ pc = "done" =>
              /\ Len(calls) = 1
              /\ calls[1].op = "mark_run_failed"
        /\ pc = "select" => calls = <<>>
        /\ ~Fetched
        /\ graph = <<>>
        /\ idx = 0
        /\ checks = {}
        /\ processed_objects = {}
        /\ affected_parameters = <<>>

\* a PATTERN_MATCHING run without a pattern that has ended
C3_Witness ==
    /\ pc = "done"
    /\ inputs.sanitization_mode = "PATTERN_MATCHING"
    /\ inputs.parameter_input = <<>>
    /\ LastCall.op = "mark_run_failed"

\* C4: a run that has ended, normally or not, has made exactly one call in
\* total to mark_run_success or mark_run_failed, as its last call, has
\* received the version and committed at most once each, and at no time has a
\* run made more than one outcome call.
C4_ExactlyOneOutcome ==
    /\ Cardinality(Outcomes) <= 1
    /\ Count("receive_version") <= 1
    /\ Count("create_new_version_in_project") <= 1
    /\ pc \in {"done", "raised"} =>
          /\ Cardinality(Outcomes) = 1
          /\ LastCall.op \in {"mark_run_success", "mark_run_failed"}

\* C6: once the walker has processed a node whose legacy parameters hold a
\* member that satisfies the action's check (its name in name-check mode, its
\* value in value-check mode), the node id is in processed_objects.
LegacyMemberMatches(member) ==
    LET r == IF check_values
             THEN Action_check(action, member.value.s, member.value)
             ELSE Action_check(action, member.name, Str(member.name))
    IN  ~r.raised /\ r.value

C6_LegacyParametersProcessed ==
    pc \in {"traversing", "committing", "done"} =>
        \A k \in 1..Len(graph0) :
            (/\ k < idx
             /\ graph0[k].has_parameters
             /\ \E j \in 1..Len(graph0[k].parameters) :
                   LegacyMemberMatches(graph0[k].parameters[j]))
            => graph0[k].id \in processed_objects

\* C7: in ANONYMIZATION mode the selection never fails the run (a run that has
\* ended has received the version, whatever parameter_input is), only values
\* are handed to Action.check, and a run that has ended ends with
\* mark_run_success unless its commit returned no version id; in
\* PREFIX_MATCHING and PATTERN_MATCHING modes only names are handed to
\* Action.check.
C7_ModeSelectsCheck ==
    /\ inputs.sanitization_mode = "ANONYMIZATION" =>
          /\ pc # "raised"
          /\ pc # "select" => (action.kind = "anonymization" /\ check_values)
          /\ pc = "done" => Fetched
          /\ checks \subseteq {"value"}
          /\ pc = "done" =>
                \/ LastCall.op = "mark_run_success"
                \/ \E k \in CallsOf("create_new_version_in_project") : calls[k].msg = ""
    /\ inputs.sanitization_mode \in {"PREFIX_MATCHING", "PATTERN_MATCHING"} =>
          checks \subseteq {"name"}

\* an ANONYMIZATION run with a parameter_input that checked values, masked
\* one and succeeded after the commit
C7_Witness ==
    /\ pc = "done"
    /\ inputs.sanitization_mode = "ANONYMIZATION"
    /\ inputs.parameter_input # <<>>
    /\ checks = {"value"}
    /\ anonymized_count > 0
    /\ Count("create_new_version_in_project") = 1
    /\ LastCall.op = "mark_run_success"

\* C10: a PATTERN_MATCHING run whose pattern is "/" or "//" removes nothing,
\* marks no node processed, and ends with mark_run_failed.
C10_DegeneratePatternFailsFast ==
    (inputs.sanitization_mode = "PATTERN_MATCHING"
        /\ inputs.parameter_input \in {<<"/">>, <<"/", "/">>}) =>
        /\ graph = graph0
        /\ processed_objects = {}
        /\ pc = "done" => LastCall.op = "mark_run_failed"

----------------------------------------------------------------------------
(* Properties of the walker *)

NameMatches(act, entry) == RemovalAction_check(act, ParamName(entry)).value

\* the mapping without the parameter leaves whose name matches, at every depth
RECURSIVE WithoutMatches(_, _)
WithoutMatches(act, d) ==
    IF d = <<>> THEN <<>>
    ELSE LET e == d[1]
             rest == WithoutMatches(act, Tail(d))
         IN  IF e.kind = "param"
             THEN IF NameMatches(act, e) THEN rest ELSE <<e>> \o rest
             ELSE IF e.kind = "group"
             THEN <<[e EXCEPT !.sub = WithoutMatches(act, e.sub)]>> \o rest
             ELSE <<e>> \o rest

\* the parameter leaves of a mapping, at every depth
RECURSIVE Leaves(_)
Leaves(d) ==
    UNION {IF d[k].kind = "param" THEN {d[k]}
           ELSE IF d[k].kind = "group" THEN Leaves(d[k].sub)
           ELSE {} : k \in 1..Len(d)}

\* C5: after the walker has processed a node with a name-based RemovalAction
\* (and the matcher raised nothing), the node's properties are the original
\* mapping without exactly the parameter leaves whose name (the "name" field,
\* else the key) matches, at every depth, every other entry being unchanged
\* and in place; and the node id is in processed_objects iff a leaf matched.
C5_RemovesExactlyMatchingLeaves ==
    (pc = "traversing" /\ idx = 2 /\ action.kind = "removal") =>
        /\ graph[1].properties = WithoutMatches(action, graph0[1].properties)
        /\ (graph[1].id \in processed_objects)
              <=> (\E e \in Leaves(graph0[1].properties) : NameMatches(action, e))

\* a walk that removed a top-level leaf and a nested one and kept the group
C5_Witness ==
    /\ pc = "traversing"
    /\ idx = 2
    /\ action.kind = "removal"
    /\ Len(graph0[1].properties) = 2
    /\ Len(graph[1].properties) = 1
    /\ graph[1].properties[1].kind = "group"
    /\ graph[1].properties[1].sub = <<>>
    /\ \E k \in 1..2 : graph0[1].properties[k].kind = "group"
                          /\ Len(graph0[1].properties[k].sub) = 1
    /\ graph[1].id \in processed_objects

----------------------------------------------------------------------------
(* Properties of the matchers *)

\* the letters of the alphabet that differ only in case
SameLetter(a, b) == a = b \/ {a, b} = {"i", "I"}

\* C8: PrefixMatcher.matches returns, with strict_mode, whether the name
\* begins with the prefix character for character, and, without, whether it
\* begins with it up to the case of the letters.
C8_PrefixMatch ==
    ret.fn = "prefix" =>
        /\ ~ret.raised
        /\ ret.value <=>
              /\ Len(arg.pattern) <= Len(arg.name)
              /\ \A k \in 1..Len(arg.pattern) :
                    IF arg.strict THEN arg.name[k] = arg.pattern[k]
                    ELSE SameLetter(arg.name[k], arg.pattern[k])

\* a non-strict prefix match that a case-sensitive comparison would refuse
C8_Witness ==
    /\ ret.fn = "prefix"
    /\ ~arg.strict
    /\ ret.value
    /\ arg.pattern # <<>>
    /\ ~StartsWith(arg.name, arg.pattern)

\* the pattern without one trailing "i"
StripOneI(p) == IF Len(p) > 0 /\ p[Len(p)] = "i" THEN SubSeq(p, 1, Len(p) - 1) ELSE p

\* C9: PatternMatcher.matches treats a pattern that starts with "/" and, a
\* single trailing "i" stripped, ends with "/" as a regex whose body is the
\* text between the two slashes, searched case-insensitively when the pattern
\* ends with "/i" and otherwise case-sensitively iff strict; every other
\* pattern is a glob, matched on the lower-cased name and pattern when not
\* strict and as written when strict.
C9_ClaimedMatch(pattern, strict, name) ==
    LET stripped == StripOneI(pattern)
    IN  IF StartsWith(pattern, <<"/">>) /\ EndsWith(stripped, <<"/">>)
        THEN ReSearch(SubSeq(stripped, 2, Len(stripped) - 1), name,
                      IF EndsWith(pattern, <<"/", "i">>) THEN TRUE ELSE ~strict)
        ELSE IF strict THEN FnMatchCase(name, pattern)
             ELSE FnMatchCase(Lower(name), Lower(pattern))

C9_PatternMatch ==
    (ret.fn = "pattern" /\ ~ret.raised) =>
        ret.value = C9_ClaimedMatch(arg.pattern, arg.strict, arg.name)

----------------------------------------------------------------------------
(* Properties of anonymize_email *)

\* the email-like substrings of v from pos on, found left to right: <<first
\* index, last index>> of each
RECURSIVE MatchSpans(_, _)
MatchSpans(v, pos) ==
    IF EmailStarts(v, pos) = {} THEN {}
    ELSE LET s == SetMin(EmailStarts(v, pos))
         IN  {<<s, EmailEndAt(v, s)>>} \cup MatchSpans(v, EmailEndAt(v, s) + 1)

\* index of the "@" of the match that spans m
AtOf(v, m) == CHOOSE q \in m[1]..m[2] : v[q] = "@"

\* the character the masking rule puts at index k of v
MaskedChar(v, k) ==
    IF \E m \in MatchSpans(v, 1) : m[1] <= k /\ k < AtOf(v, m)
    THEN LET m == CHOOSE m \in MatchSpans(v, 1) : m[1] <= k /\ k < AtOf(v, m)
             L == AtOf(v, m) - m[1]
         IN  IF L > 2 THEN (IF k = m[1] \/ k = AtOf(v, m) - 1 THEN v[k] ELSE "*")
             ELSE IF L = 2 THEN (IF k = m[1] THEN v[k] ELSE "*")
             ELSE "*"
    ELSE v[k]

\* C11: anonymize_email of a string returns a string of the same length in
\* which, for each email-like substring found left to right, the local part
\* of length L shows its first and last character around L-2 asterisks when
\* L > 2, its first character and one asterisk when L = 2, one asterisk when
\* L = 1; the "@", the domain and every character outside the matches are
\* the ones of the input.
C11_MaskByLocalLength ==
    (pc \in {"masked", "masked_twice", "called_again"} /\ arg.is_str) =>
        /\ ret[1].is_str
        /\ Len(ret[1].s) = Len(arg.s)
        /\ \A k \in 1..Len(arg.s) : ret[1].s[k] = MaskedChar(arg.s, k)

\* a value with two addresses, one of them with a local part longer than 2,
\* and a character between them, has been masked
C11_Witness ==
    /\ pc = "masked"
    /\ arg.is_str
    /\ Cardinality(MatchSpans(arg.s, 1)) = 2
    /\ \E m \in MatchSpans(arg.s, 1) : AtOf(arg.s, m) - m[1] > 2
    /\ \E k \in 1..Len(arg.s) : arg.s[k] = " "
    /\ ret[1] # arg

\* the lengths of the local parts of the email-like substrings of v
LocalLengths(v) == {AtOf(v, m) - m[1] : m \in MatchSpans(v, 1)}

\* C12: a call of anonymize_email on a value returns what the first call on
\* that value returned, whatever was masked in between; masking is not
\* idempotent: a value with an email-like substring whose local part is
\* longer than 2 is masked a second time differently (the character kept at
\* the end of the local part is an address of its own), while a value with no
\* email-like substring is returned as it is by both calls.
C12_DeterministicNotIdempotent ==
    (pc \in {"masked_twice", "called_again"} /\ arg.is_str) =>
        /\ (\E L \in LocalLengths(arg.s) : L > 2) => ret[2] # ret[1]
        /\ LocalLengths(arg.s) = {} => (ret[1] = arg /\ ret[2] = arg)
        /\ pc = "called_again" => ret[3] = ret[1]

\* an address with a local part of three characters has been masked twice,
\* with two different results, and then masked again from the start
C12_Witness ==
    /\ pc = "called_again"
    /\ arg.is_str
    /\ LocalLengths(arg.s) = {3}
    /\ ret[2] # ret[1]
    /\ ret[1] # arg

----------------------------------------------------------------------------
(* Properties of an Action *)

\* number of names recorded in the result set
RECURSIVE TotalEntries(_)
TotalEntries(affected) ==
    IF affected = <<>> THEN 0 ELSE Len(affected[1].names) + TotalEntries(Tail(affected))

\* the ids of the nodes that have an entry in the result set
RecordedIds(affected) == {affected[k].id : k \in 1..Len(affected)}

\* C13: report on an empty result set sends nothing to the sink; otherwise
\* it makes exactly one attach_info_to_objects call, its category
\* Removed_Parameters for a removal and Anonymized_Parameters for an
\* anonymization, its object_ids holding each node id that has an entry in
\* the result set once and no other id, its message built from the set of
\* the names recorded for any node.
C13_ReportOnce ==
    pc = "reported" =>
        IF TotalEntries(affected_parameters) = 0 THEN calls = <<>>
        ELSE /\ Len(calls) = 1
             /\ calls[1].op = "attach_info_to_objects"
             /\ calls[1].msg = (IF action.kind = "removal" THEN "Removed_Parameters"
                                ELSE "Anonymized_Parameters")
             /\ \A i, j \in 1..Len(calls[1].object_ids) :
                   calls[1].object_ids[i] = calls[1].object_ids[j] => i = j
             /\ {calls[1].object_ids[i] : i \in 1..Len(calls[1].object_ids)}
                   = RecordedIds(affected_parameters)
             /\ \A name \in calls[1].names :
                   \E k \in 1..Len(affected_parameters) :
                      \E j \in 1..Len(affected_parameters[k].names) :
                         affected_parameters[k].names[j] = name
             /\ \A k \in 1..Len(affected_parameters) :
                   \A j \in 1..Len(affected_parameters[k].names) :
                      affected_parameters[k].names[j] \in calls[1].names

\* a report after two parameters of one name were recorded for two nodes
C13_Witness ==
    /\ pc = "reported"
    /\ Len(calls) = 1
    /\ Len(calls[1].object_ids) = 2
    /\ TotalEntries(affected_parameters) = 2
    /\ Cardinality(calls[1].names) = 1

\* the names recorded for a node id, none when the id has no entry
NamesOf(affected, id) ==
    IF id \in RecordedIds(affected)
    THEN affected[CHOOSE k \in 1..Len(affected) : affected[k].id = id].names
    ELSE <<>>

\* the step is a call of apply
IsApply == idx' = idx + 1

\* C15: a call of RemovalAction.apply returns (it raises nothing) and appends
\* exactly one entry, the parameter's name or else the key, to the list of
\* the node's id in the result set and touches no other list, whether a
\* member was removed or not; on a dict container the key is absent after
\* the call and the entries under the other keys are the ones from before,
\* in their order.
C15_RemovalAlwaysRecords ==
    [][(IsApply /\ action.kind = "removal") =>
          LET id == graph[arg'.node].id
              name == IF arg'.parameter.has_name THEN arg'.parameter.name ELSE arg'.key
          IN  /\ pc' = "applying"
              /\ NamesOf(affected_parameters', id)
                    = Append(NamesOf(affected_parameters, id), name)
              /\ \A other \in RecordedIds(affected_parameters) \cup
                                RecordedIds(affected_parameters') :
                    other # id => NamesOf(affected_parameters', other)
                                     = NamesOf(affected_parameters, other)
              /\ TotalEntries(affected_parameters') = TotalEntries(affected_parameters) + 1
              /\ arg'.container = "dict" =>
                    /\ arg'.key \notin KeysOf(graph'[arg'.node].properties)
                    /\ graph'[arg'.node].properties
                          = SelectSeq(graph[arg'.node].properties,
                                      LAMBDA e : e.key # arg'.key)
                    /\ graph'[arg'.node].parameters = graph[arg'.node].parameters]_vars

\* a removal was applied on a Base container for a key that names no member:
\* nothing was removed and the parameter is recorded
C15_Witness ==
    /\ action.kind = "removal"
    /\ idx = 1
    /\ arg.container = "base"
    /\ arg.key \notin KeysOf(graph0[arg.node].parameters)
    /\ graph = graph0
    /\ TotalEntries(affected_parameters) = 1

\* C16: when RemovalAction.apply is called on a Base container with a
\* parameter whose applicationInternalName differs from the key, and the
\* container has no member under the key (removal under the key removes
\* nothing), the container has no member under the applicationInternalName
\* after the call.
C16_RetryUnderAlternateName ==
    [][(/\ IsApply
        /\ action.kind = "removal"
        /\ arg'.container = "base"
        /\ arg'.application_name # arg'.key
        /\ arg'.key \notin KeysOf(graph[arg'.node].parameters))
          => arg'.application_name \notin KeysOf(graph'[arg'.node].parameters)]_vars

\* the container a call of apply was made on
ContainerOf(g, a) ==
    IF a.container = "dict" THEN g[a.node].properties ELSE g[a.node].parameters

\* C17: a call of AnonymizationAction.apply on a parameter whose value is no
\* string, or whose masked value is the value itself, changes nothing: not
\* the parameter, no container, no result-set entry, not the counter.  Any
\* other call overwrites the parameter's value with its masked form and
\* changes nothing else of the parameter; a dict container reads as before
\* but for the item that is the parameter, if it holds it; of a Base
\* container only the member under the key changes, when it has a value
\* attribute, and takes the masked value; exactly one name, the parameter's
\* or else the key, is appended under the node's id, and anonymized_count
\* grows by one.  After every call anonymized_count is the number of
\* entries in the result set.
C17_MaskAndCount ==
    [][(IsApply /\ action.kind = "anonymization") =>
          LET id == graph[arg'.node].id
              parameter == arg'.parameter
              value == parameter.value
              name == IF parameter.has_name THEN parameter.name ELSE arg'.key
              masked == EmailMatcher_anonymize_email(value)
              before == ContainerOf(graph, arg')
              after == ContainerOf(graph', arg')
          IN  /\ IF ~value.is_str \/ masked = value
                 THEN /\ arg'.parameter_after = parameter
                      /\ graph' = graph
                      /\ affected_parameters' = affected_parameters
                      /\ anonymized_count' = anonymized_count
                 ELSE /\ arg'.parameter_after.value = masked
                      /\ arg'.parameter_after = [parameter EXCEPT !.value = masked]
                      /\ Len(after) = Len(before)
                      /\ arg'.container = "dict" =>
                            \A k \in 1..Len(before) :
                               after[k] = IF k = arg'.at
                                          THEN [before[k] EXCEPT !.value = masked]
                                          ELSE before[k]
                      /\ arg'.container = "base" =>
                            \A k \in 1..Len(before) :
                               after[k] = IF /\ before[k].key = arg'.key
                                             /\ before[k].has_value
                                          THEN [before[k] EXCEPT !.value = masked]
                                          ELSE before[k]
                      /\ \A n \in 1..Len(graph) :
                            /\ n # arg'.node => graph'[n] = graph[n]
                            /\ arg'.container = "dict"
                                  => graph'[n].parameters = graph[n].parameters
                            /\ arg'.container = "base"
                                  => graph'[n].properties = graph[n].properties
                      /\ NamesOf(affected_parameters', id)
                            = Append(NamesOf(affected_parameters, id), name)
                      /\ TotalEntries(affected_parameters')
                            = TotalEntries(affected_parameters) + 1
                      /\ anonymized_count' = anonymized_count + 1
              /\ anonymized_count' = TotalEntries(affected_parameters')]_vars

\* two calls of the masking were made: the first changed nothing, the second
\* masked the value of its parameter, an item of the dict, and was counted
C17_Witness ==
    /\ action.kind = "anonymization"
    /\ idx = 2
    /\ anonymized_count = 1
    /\ TotalEntries(affected_parameters) = 1
    /\ arg.container = "dict"
    /\ arg.at > 0
    /\ arg.parameter_after # arg.parameter
    /\ graph # graph0

----------------------------------------------------------------------------
(* Properties of the walker called again *)

\* C14: processing a node a second time in the same run leaves the node's
\* properties, the Action result set and processed_objects as they were
\* after the first call, for a removal as for an anonymization.
C14_SecondProcessChangesNothing ==
    pc = "processed_again" =>
        /\ graph[arg].properties = ret.graph[arg].properties
        /\ affected_parameters = ret.affected_parameters
        /\ processed_objects = ret.processed_objects

----------------------------------------------------------------------------
(* Properties of the commit *)

\* C18: when create_new_version_in_project returns no version id, the commit
\* has been attempted exactly once, the graph in memory is the one the walker
\* left (it differs from the received one: nothing is rolled back), the
\* result set and the calls made so far, the report's attach call included,
\* stand as they were, and the only outcome signalled is mark_run_failed,
\* with no set_context_view.
C18_CommitFailureKeepsMutations ==
    [][(/\ pc = "committing"
        /\ pc' = "done"
        /\ \E k \in 1..Len(calls') :
              calls'[k].op = "create_new_version_in_project" /\ calls'[k].msg = "")
          => /\ graph' = graph
             /\ graph' # graph0
             /\ affected_parameters' = affected_parameters
             /\ processed_objects' = processed_objects
             /\ SubSeq(calls', 1, Len(calls)) = calls
             /\ Cardinality({k \in 1..Len(calls') : calls'[k].op = "attach_info_to_objects"}) = 1
             /\ Cardinality({k \in 1..Len(calls') :
                                calls'[k].op = "create_new_version_in_project"}) = 1
             /\ {k \in 1..Len(calls') : calls'[k].op = "set_context_view"} = {}
             /\ {k \in 1..Len(calls') : calls'[k].op = "mark_run_success"} = {}
             /\ {k \in 1..Len(calls') : calls'[k].op = "mark_run_failed"} = {Len(calls')}
             /\ calls'[Len(calls')].msg = "Failed to create a new version."]_vars

\* a run that masked a value in each of two nodes has ended on a failed commit
C18_Witness ==
    /\ pc = "done"
    /\ action.kind = "anonymization"
    /\ anonymized_count = 2
    /\ Len(graph) = 2
    /\ graph[1] # graph0[1]
    /\ graph[2] # graph0[2]
    /\ calls[Len(calls) - 1] = Call("create_new_version_in_project", "")
    /\ LastCall.op = "mark_run_failed"

----------------------------------------------------------------------------
(* Properties of runs in a row *)

\* the runs that have ended, the current one included when it has
EndedRuns == IF pc \in {"done", "raised"} THEN Append(ret, RunSummary) ELSE ret

\* the calls of a run up to its commit, whose answer is left out
UpToCommit(cs) ==
    LET at == {k \in 1..Len(cs) : cs[k].op = "create_new_version_in_project"}
    IN  IF at = {} THEN cs
        ELSE [k \in 1..SetMin(at) |-> IF k = SetMin(at) THEN [cs[k] EXCEPT !.msg = ""]
                                      ELSE cs[k]]

\* the answers the commits of a run were given
CommitAnswers(cs) ==
    {cs[k].msg : k \in {j \in 1..Len(cs) : cs[j].op = "create_new_version_in_project"}}

\* C19: the walk of every run starts with processed_objects and the result
\* set empty (and the counter at 0), and two runs of a sequence that have the
\* same configuration and received the same graph end the same way, leave
\* the same graph and made the same calls up to the commit (the same report,
\* the same decision to commit or not), and the same calls altogether when
\* their commits were answered the same; whatever the runs before them
\* processed or recorded.
C19_RunScopedState ==
    /\ (pc = "traversing" /\ idx = 1) =>
          /\ processed_objects = {}
          /\ affected_parameters = <<>>
          /\ anonymized_count = 0
    /\ \A i, j \in 1..Len(EndedRuns) :
          (EndedRuns[i].inputs = EndedRuns[j].inputs /\ EndedRuns[i].graph0 = EndedRuns[j].graph0)
             => /\ UpToCommit(EndedRuns[i].calls) = UpToCommit(EndedRuns[j].calls)
                /\ EndedRuns[i].graph = EndedRuns[j].graph
                /\ (CommitAnswers(EndedRuns[i].calls) = CommitAnswers(EndedRuns[j].calls)
                       => /\ EndedRuns[i].calls = EndedRuns[j].calls
                          /\ EndedRuns[i].pc = EndedRuns[j].pc)

\* a run that found nothing to process has ended with a success and neither
\* report nor commit, after a run that recorded and committed parameters
C19_Witness ==
    /\ pc = "done"
    /\ Len(ret) = 1
    /\ \E k \in 1..Len(ret[1].calls) : ret[1].calls[k].op = "attach_info_to_objects"
    /\ Fetched
    /\ calls[Len(calls)] = Call("mark_run_success", "No parameters were processed.")
    /\ Count("create_new_version_in_project") = 0
    /\ processed_objects = {}

----------------------------------------------------------------------------
(* Properties of the walker's bookkeeping *)

\* C20: at every point of a run, for a removal as for an anonymization,
\* processed_objects is the set of the node ids that have an entry in the
\* Action result set, and every such entry holds at least one name.
C20_ProcessedIffRecorded ==
    /\ processed_objects = {affected_parameters[k].id : k \in 1..Len(affected_parameters)}
    /\ \A k \in 1..Len(affected_parameters) : affected_parameters[k].names # <<>>

\* an anonymization has walked two nodes whose leaves all hold string values:
\* one holds an address and is marked processed, the other is not
C20_Witness ==
    /\ action.kind = "anonymization"
    /\ pc = "traversing"
    /\ Len(graph) = 2
    /\ idx = 3
    /\ Cardinality(processed_objects) = 1
    /\ checks = {"value"}
    /\ \E k \in 1..2 :
          /\ graph[k].id \notin processed_objects
          /\ graph[k].properties # <<>>
          /\ \A j \in 1..Len(graph[k].properties) :
                graph[k].properties[j].kind = "param" /\ graph[k].properties[j].value.is_str

====
